---- MODULE Spec2Model ----
(***************************************************************************)
(* CalculateUtility (src/native/UtilityCalculator.h): the weighted average *)
(* of a factor array by a weight array, in IEEE-754 binary32 arithmetic.   *)
(*                                                                         *)
(* A float is a record [k, m, e]: k = "fin" is the number m * 2^e with m   *)
(* odd (or m = 0, e = 0), k = "inf" is the infinity of sign m, k = "nan"   *)
(* is NaN.  +0 and -0 are one value: they compare equal in the code        *)
(* (line 18) and never change a non-zero result of the operations used.    *)
(* Every operation rounds to nearest, ties to even, to Precision bits,     *)
(* with gradual underflow at 2^EMin and overflow to infinity at 2^EMax.    *)
(***************************************************************************)
EXTENDS Integers, Sequences, FiniteSets

(* The length of the longest array a caller passes. *)
MaxLen == 2

(* binary32: 24 significant bits, least subnormal 2^-149, overflow at 2^128. *)
Precision == 24
EMin == -149
EMax == 128

(* Quotient bits the long division produces before rounding: the *)
(* significand, a guard bit and a round bit.                     *)
DivBits == Precision + 2

Procs == {1, 2}

Abs(n) == IF n < 0 THEN -n ELSE n

Sign(n) == IF n < 0 THEN -1 ELSE 1

Max2(a, b) == IF a >= b THEN a ELSE b

Min2(a, b) == IF a <= b THEN a ELSE b

RECURSIVE Pow2(_)
Pow2(k) == IF k <= 0 THEN 1 ELSE 2 * Pow2(k - 1)

(* The number of bits of n >= 0: 0 for 0, else floor(log2 n) + 1. *)
RECURSIVE BitLen(_)
BitLen(n) == IF n = 0 THEN 0 ELSE 1 + BitLen(n \div 2)

Fin(m, e) == [k |-> "fin", m |-> m, e |-> e]

Zero == Fin(0, 0)

One == Fin(1, 0)

Inf(s) == [k |-> "inf", m |-> s, e |-> 0]

NaN == [k |-> "nan", m |-> 0, e |-> 0]

(* The absent return value of a call that has not returned. *)
NoValue == [k |-> "none", m |-> 0, e |-> 0]

IsFin(x) == x.k = "fin"

IsZero(x) == x.k = "fin" /\ x.m = 0

(* The canonical record of the exact number m * 2^e. *)
RECURSIVE Norm(_, _)
Norm(m, e) ==
    IF m = 0 THEN Zero
    ELSE IF m % 2 = 0 THEN Norm(m \div 2, e + 1)
    ELSE Fin(m, e)

(* The float nearest s * n * 2^e (n >= 0), ties to even. *)
Round(s, n, e) ==
    LET bl == BitLen(n)
        sh == Max2(Max2(bl - Precision, EMin - e), 0)
        q0 == IF sh > bl THEN 0 ELSE n \div Pow2(sh)
        r  == IF sh > bl THEN 0 ELSE n % Pow2(sh)
        up == sh > 0 /\ sh <= bl
              /\ (2 * r > Pow2(sh) \/ (2 * r = Pow2(sh) /\ q0 % 2 = 1))
        q  == IF up THEN q0 + 1 ELSE q0
    IN  IF n = 0 THEN Zero
        ELSE IF BitLen(q) + e + sh > EMax THEN Inf(s)
        ELSE Norm(s * q, e + sh)

(* The exponent of the first binary place above a finite non-zero x. *)
Top(x) == x.e + BitLen(Abs(x.m))

(* The exact sum of two finite floats whose exponents are close, as <<n, e>>. *)
RawSum(a, b) ==
    LET e == Min2(a.e, b.e)
    IN  <<a.m * Pow2(a.e - e) + b.m * Pow2(b.e - e), e>>

(* a + b in binary32.  An operand below a quarter of the other's last *)
(* place is absorbed.                                                  *)
FAdd(a, b) ==
    IF a.k = "nan" \/ b.k = "nan" THEN NaN
    ELSE IF a.k = "inf" /\ b.k = "inf" THEN (IF a.m = b.m THEN a ELSE NaN)
    ELSE IF a.k = "inf" THEN a
    ELSE IF b.k = "inf" THEN b
    ELSE IF IsZero(a) THEN b
    ELSE IF IsZero(b) THEN a
    ELSE IF Top(a) - Top(b) >= Precision + 2 THEN a
    ELSE IF Top(b) - Top(a) >= Precision + 2 THEN b
    ELSE LET s == RawSum(a, b)
         IN  Round(Sign(s[1]), Abs(s[1]), s[2])

(* a * b in binary32. *)
FMul(a, b) ==
    IF a.k = "nan" \/ b.k = "nan" THEN NaN
    ELSE IF a.k = "inf" \/ b.k = "inf"
         THEN (IF IsZero(a) \/ IsZero(b) THEN NaN ELSE Inf(Sign(a.m) * Sign(b.m)))
    ELSE Round(Sign(a.m) * Sign(b.m), Abs(a.m) * Abs(b.m), a.e + b.e)

(* Long division: the quotient bits of r / d (r < 2d) after `left` more steps. *)
RECURSIVE DivStep(_, _, _, _)
DivStep(r, d, q, left) ==
    IF left = 0 THEN <<q, r>>
    ELSE IF 2 * r >= d THEN DivStep(2 * r - d, d, 2 * q + 1, left - 1)
    ELSE DivStep(2 * r, d, 2 * q, left - 1)

(* a / b in binary32.  x / 0 takes the sign of x. *)
FDiv(a, b) ==
    IF a.k = "nan" \/ b.k = "nan" THEN NaN
    ELSE IF a.k = "inf" THEN (IF b.k = "inf" THEN NaN ELSE Inf(a.m * Sign(b.m)))
    ELSE IF b.k = "inf" THEN Zero
    ELSE IF IsZero(b) THEN (IF IsZero(a) THEN NaN ELSE Inf(Sign(a.m)))
    ELSE IF IsZero(a) THEN Zero
    ELSE LET sa == Precision - BitLen(Abs(a.m))
             sb == Precision - BitLen(Abs(b.m))
             A  == Abs(a.m) * Pow2(sa)
             B  == Abs(b.m) * Pow2(sb)
             q0 == IF A >= B THEN 1 ELSE 0
             qr == DivStep(A - q0 * B, B, q0, DivBits)
             n  == 2 * qr[1] + (IF qr[2] = 0 THEN 0 ELSE 1)
         IN  Round(Sign(a.m) * Sign(b.m), n,
                   (a.e - sa) - (b.e - sb) - DivBits - 1)

(* a <= b, as the comparison operators of the language order floats. *)
FLe(a, b) ==
    IF a.k = "nan" \/ b.k = "nan" THEN FALSE
    ELSE IF a.k = "inf" THEN a.m = -1 \/ (b.k = "inf" /\ b.m = 1)
    ELSE IF b.k = "inf" THEN b.m = 1
    ELSE IF IsZero(a) THEN b.m >= 0
    ELSE IF IsZero(b) THEN a.m < 0
    ELSE IF Sign(a.m) # Sign(b.m) THEN a.m < 0
    ELSE IF Top(a) # Top(b) THEN (IF a.m > 0 THEN Top(a) < Top(b) ELSE Top(a) > Top(b))
    ELSE LET s == RawSum(a, Fin(-b.m, b.e)) IN s[1] <= 0

(* The addition and the product lose nothing: finite operands, a result *)
(* that is the exact sum or product.                                     *)
ExactAdd(a, b) ==
    /\ IsFin(a) /\ IsFin(b)
    /\ \/ IsZero(a) \/ IsZero(b)
       \/ /\ Abs(Top(a) - Top(b)) < Precision + 2
          /\ LET s == RawSum(a, b) IN FAdd(a, b) = Norm(s[1], s[2])

ExactMul(a, b) ==
    /\ IsFin(a) /\ IsFin(b)
    /\ FMul(a, b) = Norm(a.m * b.m, a.e + b.e)

(* size_t to float, for the lengths the model uses. *)
FromNat(n) == Round(1, n, 0)


(***************************************************************************)
(* The caller's memory and the calls.                                      *)
(***************************************************************************)

VARIABLES
    mem,        \* the two arrays the host owns: mem["F"], mem["W"]
    callers,    \* the host threads that call the function
    pc,         \* each thread's position in CalculateUtility
    args,       \* each call's arguments: factors, weights, length
    frame,      \* the call frames: weightedSum, weightTotal, i
    ret,        \* each call's return value, NoValue before it returns
    exc,        \* the exception a call has thrown, "none" otherwise
    reads,      \* the array elements a call has read so far
    divs        \* the divisions a call has performed so far

vars == <<mem, callers, pc, args, frame, ret, exc, reads, divs>>

NULL == "nullptr"

(* 2^127, whose double overflows; 11184814, whose triple is rounded; *)
(* 2^-149, the least positive float, whose half underflows.         *)
Huge == Fin(1, 127)

Odd3 == Fin(5592407, 1)

Tiny == Fin(1, -149)

Half == Fin(1, -1)

FVals == {Zero, One, Fin(-1, 0), Odd3, Huge, Tiny}

WVals == {Zero, One, Fin(-1, 0), Fin(1, 1), Half}

SeqsUpTo(S, n) == UNION {[1..k -> S] : k \in 1..n}

(* The arrays two concurrent callers share. *)
ConcMems ==
    { [F |-> <<One, Fin(-1, 0)>>, W |-> <<One, Fin(1, 1)>>],
      [F |-> <<Huge, Odd3>>,      W |-> <<Fin(1, 1), Fin(1, 1)>>],
      [F |-> <<Odd3>>,            W |-> <<One, Fin(-1, 0)>>] }

NoArgs == [factors |-> NULL, weights |-> NULL, length |-> 0]

NoFrame == [weightedSum |-> Zero, weightTotal |-> Zero, i |-> 0]

InitRest ==
    /\ pc = [p \in Procs |-> "idle"]
    /\ args = [p \in Procs |-> NoArgs]
    /\ frame = [p \in Procs |-> NoFrame]
    /\ ret = [p \in Procs |-> NoValue]
    /\ exc = [p \in Procs |-> "none"]
    /\ reads = [p \in Procs |-> 0]
    /\ divs = [p \in Procs |-> 0]

(* One caller, arrays of every content and length up to MaxLen. *)
Init ==
    /\ mem \in [F : SeqsUpTo(FVals, MaxLen), W : SeqsUpTo(WVals, MaxLen)]
    /\ callers = {1}
    /\ InitRest

(* Two callers on shared arrays. *)
InitConc ==
    /\ mem \in ConcMems
    /\ callers = Procs
    /\ InitRest

(* Line 6: the precondition test; the error it raises. *)
CheckErrorNoLength(a) ==
    IF a.factors = NULL \/ a.weights = NULL THEN "InvalidInput" ELSE "none"

CheckErrorOutOfRange(a) ==
    IF a.factors = NULL \/ a.weights = NULL THEN "InvalidInput"
    ELSE IF a.length = 0 THEN "OutOfRange"
    ELSE "none"

CheckError(a) ==
    IF a.factors = NULL \/ a.weights = NULL \/ a.length = 0
    THEN "InvalidInput"
    ELSE "none"

(* Lines 10-13: the locals are automatic, one frame per call. *)
FrameOfStatic(p) == 1

FrameOf(p) == p

(* Lines 10-11: the values the accumulators start from. *)
InitValuesIndeterminate == WVals

InitValues == {Zero}

(* Line 13: the loop condition. *)
LoopCondInclusive(i, n) == i <= n

LoopCond(i, n) == i < n

(* Lines 14-15 and the ++i of line 13: one iteration on the elements read. *)
AccumulateTotalOnce(fr, f, w) ==
    [weightedSum |-> FAdd(fr.weightedSum, FMul(f, w)),
     weightTotal |-> w,
     i |-> fr.i + 1]

AccumulateNoProduct(fr, f, w) ==
    [weightedSum |-> FAdd(fr.weightedSum, f),
     weightTotal |-> FAdd(fr.weightTotal, w),
     i |-> fr.i + 1]

Accumulate(fr, f, w) ==
    [weightedSum |-> FAdd(fr.weightedSum, FMul(f, w)),
     weightTotal |-> FAdd(fr.weightTotal, w),
     i |-> fr.i + 1]

(* Lines 18-22: the score, and the number of divisions it takes. *)
NormaliseNoGuard(ws, wt) == [score |-> FDiv(ws, wt), divs |-> 1]

Normalise(ws, wt) ==
    IF IsZero(wt) THEN [score |-> Zero, divs |-> 0]
    ELSE [score |-> FDiv(ws, wt), divs |-> 1]

(* Element i of the array at ptr is inside the array. *)
Inside(ptr, i) == i < Len(mem[ptr])

(* The values reading ptr[i] can yield: the element, or, past the end of *)
(* the array (undefined behaviour), any value of the array's type.       *)
Loaded(ptr, i) ==
    IF Inside(ptr, i) THEN {mem[ptr][i + 1]}
    ELSE IF ptr = "F" THEN FVals ELSE WVals

(* The host calls CalculateUtility(factors, weights, length). *)
Call(p) ==
    /\ p \in callers
    /\ pc[p] = "idle"
    /\ \E f \in {NULL, "F"}, w \in {NULL, "W"}, n \in 0..MaxLen :
          args' = [args EXCEPT ![p] = [factors |-> f, weights |-> w, length |-> n]]
    /\ pc' = [pc EXCEPT ![p] = "check"]
    /\ UNCHANGED <<mem, callers, frame, ret, exc, reads, divs>>

(* Lines 6-8. *)
Check(p) ==
    /\ pc[p] = "check"
    /\ IF CheckError(args[p]) # "none"
       THEN /\ exc' = [exc EXCEPT ![p] = CheckError(args[p])]
            /\ pc' = [pc EXCEPT ![p] = "done"]
       ELSE /\ pc' = [pc EXCEPT ![p] = "init"]
            /\ UNCHANGED exc
    /\ UNCHANGED <<mem, callers, args, frame, ret, reads, divs>>

(* Lines 10-11 and the i = 0 of line 13. *)
InitLocals(p) ==
    /\ pc[p] = "init"
    /\ \E s \in InitValues, t \in InitValues :
          frame' = [frame EXCEPT ![FrameOf(p)] =
                       [weightedSum |-> s, weightTotal |-> t, i |-> 0]]
    /\ pc' = [pc EXCEPT ![p] = "loop"]
    /\ UNCHANGED <<mem, callers, args, ret, exc, reads, divs>>

(* Lines 13-16, one iteration. *)
LoopBodyInPlace(p) ==
    LET fr == frame[FrameOf(p)]
        a  == args[p]
    IN  /\ pc[p] = "loop"
        /\ LoopCond(fr.i, a.length)
        /\ \E f \in Loaded(a.factors, fr.i), w \in Loaded(a.weights, fr.i) :
              /\ frame' = [frame EXCEPT ![FrameOf(p)] = Accumulate(fr, f, w)]
              /\ mem' = IF Inside(a.factors, fr.i)
                        THEN [mem EXCEPT ![a.factors][fr.i + 1] = FMul(f, w)]
                        ELSE mem
        /\ reads' = [reads EXCEPT ![p] = @ + 2]
        /\ UNCHANGED <<callers, pc, args, ret, exc, divs>>

LoopBody(p) ==
    LET fr == frame[FrameOf(p)]
        a  == args[p]
    IN  /\ pc[p] = "loop"
        /\ LoopCond(fr.i, a.length)
        /\ \E f \in Loaded(a.factors, fr.i), w \in Loaded(a.weights, fr.i) :
              frame' = [frame EXCEPT ![FrameOf(p)] = Accumulate(fr, f, w)]
        /\ reads' = [reads EXCEPT ![p] = @ + 2]
        /\ UNCHANGED <<mem, callers, pc, args, ret, exc, divs>>

(* Lines 14-15 past the end of an array: the read may fault. *)
LoopFault(p) ==
    LET fr == frame[FrameOf(p)]
        a  == args[p]
    IN  /\ pc[p] = "loop"
        /\ LoopCond(fr.i, a.length)
        /\ ~Inside(a.factors, fr.i) \/ ~Inside(a.weights, fr.i)
        /\ pc' = [pc EXCEPT ![p] = "crashed"]
        /\ UNCHANGED <<mem, callers, args, frame, ret, exc, reads, divs>>

(* Line 13, the condition false. *)
LoopExit(p) ==
    /\ pc[p] = "loop"
    /\ ~LoopCond(frame[FrameOf(p)].i, args[p].length)
    /\ pc' = [pc EXCEPT ![p] = "ret"]
    /\ UNCHANGED <<mem, callers, args, frame, ret, exc, reads, divs>>

(* Lines 18-22. *)
Return(p) ==
    LET fr == frame[FrameOf(p)]
        r  == Normalise(fr.weightedSum, fr.weightTotal)
    IN  /\ pc[p] = "ret"
        /\ ret' = [ret EXCEPT ![p] = r.score]
        /\ divs' = [divs EXCEPT ![p] = @ + r.divs]
        /\ pc' = [pc EXCEPT ![p] = "done"]
        /\ UNCHANGED <<mem, callers, args, frame, exc, reads>>

Step(p) ==
    \/ Check(p)
    \/ InitLocals(p)
    \/ LoopBody(p)
    \/ LoopFault(p)
    \/ LoopExit(p)
    \/ Return(p)

Next == \E p \in Procs : Call(p) \/ Step(p)

Spec == Init /\ [][Next]_vars

SpecConc == InitConc /\ [][Next]_vars

(***************************************************************************)
(* The weighted average as the contract states it, on the first n elements *)
(* of F and W, every sum taken left to right in binary32.                  *)
(***************************************************************************)

RECURSIVE DotSum(_, _, _)
DotSum(F, W, n) ==
    IF n = 0 THEN Zero ELSE FAdd(DotSum(F, W, n - 1), FMul(F[n], W[n]))

RECURSIVE WeightSum(_, _)
WeightSum(W, n) == IF n = 0 THEN Zero ELSE FAdd(WeightSum(W, n - 1), W[n])

RECURSIVE FactorSum(_, _)
FactorSum(F, n) == IF n = 0 THEN Zero ELSE FAdd(FactorSum(F, n - 1), F[n])

(* No product and no partial sum of the run is rounded, overflows or *)
(* underflows.                                                        *)
RECURSIVE ExactRun(_, _, _)
ExactRun(F, W, n) ==
    \/ n = 0
    \/ /\ ExactRun(F, W, n - 1)
       /\ ExactMul(F[n], W[n])
       /\ ExactAdd(DotSum(F, W, n - 1), FMul(F[n], W[n]))
       /\ ExactAdd(WeightSum(W, n - 1), W[n])

RECURSIVE ExactFactorSum(_, _)
ExactFactorSum(F, n) ==
    \/ n = 0
    \/ ExactFactorSum(F, n - 1) /\ ExactAdd(FactorSum(F, n - 1), F[n])

(* Both arrays are passed. *)
Present(a) == a.factors # NULL /\ a.weights # NULL

(* An array is absent or the length is 0. *)
Invalid(a) == ~Present(a) \/ a.length = 0

(* Both arrays are passed and hold at least length >= 1 elements. *)
InBounds(a) ==
    /\ Present(a)
    /\ a.length >= 1
    /\ a.length <= Len(mem[a.factors])
    /\ a.length <= Len(mem[a.weights])

FOf(a) == mem[a.factors]

WOf(a) == mem[a.weights]

TotalOf(a) == WeightSum(WOf(a), a.length)

DotOf(a) == DotSum(FOf(a), WOf(a), a.length)

(* The outcome of the call a, were it the only call. *)
Alone(a) ==
    IF Invalid(a) THEN [exc |-> "InvalidInput", ret |-> NoValue]
    ELSE IF IsZero(TotalOf(a)) THEN [exc |-> "none", ret |-> Zero]
    ELSE [exc |-> "none", ret |-> FDiv(DotOf(a), TotalOf(a))]

Ended(p) == pc[p] \in {"done", "crashed"}

Running(p) == pc[p] \in {"check", "init", "loop", "ret"}

(* The steps a call has left at most; every step of the call lowers it. *)
Measure(p) ==
    CASE pc[p] = "check" -> args[p].length + 4
      [] pc[p] = "init"  -> args[p].length + 3
      [] pc[p] = "loop"  -> args[p].length - frame[FrameOf(p)].i + 2
      [] pc[p] = "ret"   -> 1
      [] OTHER           -> 0

(* What a step of thread p may write. *)
Local(p) == <<pc[p], args[p], frame[FrameOf(p)], ret[p], exc[p], reads[p], divs[p]>>

(* C1: a call whose factor array is null, or whose weight array is null, or *)
(* whose length is 0 never goes past the check: it ends with InvalidInput,  *)
(* having read no element and produced no score.                            *)
C1_InvalidInputBeforeLoop ==
    \A p \in Procs :
        (pc[p] # "idle"
         /\ (args[p].factors = NULL \/ args[p].weights = NULL \/ args[p].length = 0))
        => /\ pc[p] \in {"check", "done"}
           /\ reads[p] = 0
           /\ divs[p] = 0
           /\ ret[p] = NoValue
           /\ pc[p] = "done" => exc[p] = "InvalidInput"

C1_Witness ==
    \E p \in Procs :
        /\ pc[p] = "done" /\ exc[p] = "InvalidInput"
        /\ Present(args[p]) /\ args[p].length = 0

(* C2: a call on n >= 1 elements of present arrays whose weight total is *)
(* not zero returns Sum(F[i]*W[i]) / Sum(W[i]), factors of any sign.     *)
C2_WeightedAverage ==
    \A p \in Procs :
        (pc[p] = "done" /\ InBounds(args[p]) /\ ~IsZero(TotalOf(args[p])))
        => /\ exc[p] = "none"
           /\ ret[p] = FDiv(DotOf(args[p]), TotalOf(args[p]))

C2_Witness ==
    \E p \in Procs :
        /\ pc[p] = "done" /\ InBounds(args[p]) /\ args[p].length = 2
        /\ \E i \in 1..2 : FOf(args[p])[i].m < 0
        /\ IsFin(ret[p]) /\ ret[p].e < 0

(* C3: a call on n >= 1 elements whose weights total exactly zero returns 0 *)
(* whatever the factors are, and divides nothing.                           *)
C3_ZeroTotalGivesZero ==
    \A p \in Procs :
        (pc[p] = "done" /\ InBounds(args[p]) /\ IsZero(TotalOf(args[p])))
        => /\ exc[p] = "none"
           /\ ret[p] = Zero
           /\ divs[p] = 0

C3_Witness ==
    \E p \in Procs :
        /\ pc[p] = "done" /\ InBounds(args[p]) /\ args[p].length = 2
        /\ ~IsZero(WOf(args[p])[1])
        /\ ~IsZero(DotOf(args[p]))
        /\ ret[p] = Zero

(* C4: a call whose arrays differ in length ends with InvalidInput: no *)
(* score, no read past the end of the shorter array.                   *)
C4_LengthMismatchRejected ==
    \A p \in Procs :
        (Ended(p) /\ Present(args[p]) /\ Len(FOf(args[p])) # Len(WOf(args[p])))
        => pc[p] = "done" /\ exc[p] = "InvalidInput" /\ ret[p] = NoValue

(* C5 as stated: with every weight non-negative the score lies within *)
(* [min(F), max(F)].                                                  *)
C5_ScoreWithinFactorRange ==
    \A p \in Procs :
        (pc[p] = "done" /\ InBounds(args[p])
         /\ \A i \in 1..args[p].length : FLe(Zero, WOf(args[p])[i]))
        => /\ \E i \in 1..args[p].length : FLe(FOf(args[p])[i], ret[p])
           /\ \E i \in 1..args[p].length : FLe(ret[p], FOf(args[p])[i])

(* C5 amended: with every weight non-negative, a weight total that is not *)
(* zero, and no product or partial sum rounded or out of range, the score *)
(* lies within [min(F), max(F)].                                          *)
C5_ScoreWithinFactorRangeExact ==
    \A p \in Procs :
        (pc[p] = "done" /\ InBounds(args[p])
         /\ \A i \in 1..args[p].length : FLe(Zero, WOf(args[p])[i])
         /\ ~IsZero(TotalOf(args[p]))
         /\ ExactRun(FOf(args[p]), WOf(args[p]), args[p].length))
        => /\ \E i \in 1..args[p].length : FLe(FOf(args[p])[i], ret[p])
           /\ \E i \in 1..args[p].length : FLe(ret[p], FOf(args[p])[i])

C5_Witness ==
    \E p \in Procs :
        /\ pc[p] = "done" /\ InBounds(args[p]) /\ args[p].length = 2
        /\ \A i \in 1..2 : FLe(Zero, WOf(args[p])[i])
        /\ ExactRun(FOf(args[p]), WOf(args[p]), 2)
        /\ ~IsZero(TotalOf(args[p]))
        /\ \A i \in 1..2 : ret[p] # FOf(args[p])[i]

(* C6: InvalidInput is the only error and comes only from an absent array *)
(* or length 0; a call on n >= 1 elements of present arrays ends with a   *)
(* score, also when its weights total zero; a call that has ended has a   *)
(* score or an error and not both, and every step of a running call       *)
(* brings it nearer its end.                                              *)
C6_Outcome(p) ==
    /\ exc[p] \in {"none", "InvalidInput"}
    /\ exc[p] = "InvalidInput" => Invalid(args[p])
    /\ pc[p] = "done" => (ret[p] # NoValue) # (exc[p] # "none")
    /\ pc[p] # "done" => ret[p] = NoValue /\ exc[p] = "none"
    /\ (Ended(p) /\ InBounds(args[p]))
       => pc[p] = "done" /\ exc[p] = "none" /\ ret[p] # NoValue

(* C6: the outcome conditions hold of every call in every state, and a *)
(* step of a running call leaves it strictly fewer steps to its end.   *)
C6_OneOutcome ==
    /\ [](\A p \in Procs : C6_Outcome(p))
    /\ [][\A p \in Procs :
            (Running(p) /\ Local(p)' # Local(p))
            => Measure(p)' >= 0 /\ Measure(p)' < Measure(p)]_vars

C6_Witness ==
    \E p \in Procs :
        /\ pc[p] = "done" /\ InBounds(args[p]) /\ IsZero(TotalOf(args[p]))
        /\ exc[p] = "none" /\ ret[p] = Zero

(* C7 as stated: with all n weights equal to one non-zero c the call *)
(* returns the mean of F, Sum(F[i]) / n, whatever c is.               *)
C7_EqualWeightsGiveMean ==
    \A p \in Procs :
        (pc[p] = "done" /\ InBounds(args[p])
         /\ ~IsZero(WOf(args[p])[1])
         /\ \A i \in 1..args[p].length : WOf(args[p])[i] = WOf(args[p])[1])
        => ret[p] = FDiv(FactorSum(FOf(args[p]), args[p].length),
                         FromNat(args[p].length))

(* C7 amended: with all n weights equal to one non-zero c, and no product *)
(* or partial sum (of the products, the weights or the factors) rounded   *)
(* or out of range, the call returns the mean of F, Sum(F[i]) / n rounded *)
(* once, whatever c is; for n = 1 it returns F[0].                        *)
C7_EqualWeightsGiveMeanExact ==
    \A p \in Procs :
        (pc[p] = "done" /\ InBounds(args[p])
         /\ ~IsZero(WOf(args[p])[1])
         /\ \A i \in 1..args[p].length : WOf(args[p])[i] = WOf(args[p])[1]
         /\ ExactRun(FOf(args[p]), WOf(args[p]), args[p].length)
         /\ ExactFactorSum(FOf(args[p]), args[p].length))
        => /\ ret[p] = FDiv(FactorSum(FOf(args[p]), args[p].length),
                            FromNat(args[p].length))
           /\ args[p].length = 1 => ret[p] = FOf(args[p])[1]

C7_Witness ==
    \E p \in Procs :
        /\ pc[p] = "done" /\ InBounds(args[p]) /\ args[p].length = 2
        /\ \A i \in 1..2 : WOf(args[p])[i] = Fin(1, 1)
        /\ ExactRun(FOf(args[p]), WOf(args[p]), 2)
        /\ ExactFactorSum(FOf(args[p]), 2)
        /\ FOf(args[p])[1] # FOf(args[p])[2]
        /\ ret[p] # Zero

(* C8: whatever the interleaving, a call that has left the loop holds the *)
(* sums it would hold alone, and a call that has ended has the outcome it *)
(* would have alone.                                                      *)
C8_IndependentCalls ==
    \A p \in Procs :
        /\ (pc[p] = "ret" /\ InBounds(args[p]))
           => /\ frame[FrameOf(p)].weightedSum = DotOf(args[p])
              /\ frame[FrameOf(p)].weightTotal = TotalOf(args[p])
        /\ (Ended(p) /\ (InBounds(args[p]) \/ Invalid(args[p])))
           => /\ pc[p] = "done"
              /\ [exc |-> exc[p], ret |-> ret[p]] = Alone(args[p])

C8_Witness ==
    /\ pc[1] = "ret" /\ pc[2] = "ret"
    /\ args[1] = args[2]
    /\ InBounds(args[1]) /\ args[1].length = 2
    /\ ~IsZero(DotOf(args[1]))

(* C9: no step of a call changes the arrays, and a step changes the state *)
(* of one call only.                                                      *)
C9_NoSideEffects ==
    [][/\ mem' = mem
       /\ callers' = callers
       /\ \E p \in Procs : \A q \in Procs \ {p} : Local(q)' = Local(q)]_vars

C9_Witness ==
    \E p \in Procs :
        /\ pc[p] = "done" /\ exc[p] = "none" /\ reads[p] = 4
        /\ \E q \in Procs \ {p} : pc[q] = "done" /\ exc[q] = "InvalidInput"

(* C10: two calls with the same arguments end with the same outcome, and *)
(* a call in its loop at index i holds the sums of elements 0..i-1 taken *)
(* in ascending order.                                                   *)
C10_Deterministic ==
    /\ \A p, q \in Procs :
          (pc[p] = "done" /\ pc[q] = "done" /\ args[p] = args[q]
           /\ (InBounds(args[p]) \/ Invalid(args[p])))
          => ret[p] = ret[q] /\ exc[p] = exc[q]
    /\ \A p \in Procs :
          (pc[p] = "loop" /\ InBounds(args[p]))
          => /\ frame[FrameOf(p)].i <= args[p].length
             /\ frame[FrameOf(p)].weightedSum
                   = DotSum(FOf(args[p]), WOf(args[p]), frame[FrameOf(p)].i)
             /\ frame[FrameOf(p)].weightTotal
                   = WeightSum(WOf(args[p]), frame[FrameOf(p)].i)

C10_Witness ==
    /\ pc[1] = "done" /\ pc[2] = "done"
    /\ args[1] = args[2]
    /\ InBounds(args[1]) /\ args[1].length = 2
    /\ ret[1] = ret[2] /\ ret[1] # Zero /\ exc[1] = "none"

====
